---------------------------- MODULE Spec2Model ----------------------------
(***************************************************************************)
(* Model of the magnetic configuration library (src/engine/config.go) and  *)
(* of the httpfs utility layer (src/httpfs/util.go).                       *)
(*                                                                         *)
(* float64 is modelled as a rounding fixed-point number with Q units per   *)
(* 1.0, extended with NaN and the two infinities, with IEEE-754 rules for  *)
(* the special values (0/0 = NaN, x/0 = +-Inf, 0*Inf = NaN, every          *)
(* comparison with NaN false, every operation on NaN gives NaN).  Every    *)
(* arithmetic operation rounds its result to the grid, as float64 rounds   *)
(* to its own.  Zero is unsigned.                                          *)
(***************************************************************************)
EXTENDS Integers, Sequences, FiniteSets, TLC

\* ------------------------------------------------------------------------
\* float64
\* ------------------------------------------------------------------------

\* Grid units per 1.0.
Q == 100

Fin(n) == [k |-> "fin", v |-> n]
NaN == [k |-> "nan", v |-> 0]
Inf(s) == [k |-> "inf", v |-> s]

\* float64(i) for an int i.
FInt(i) == Fin(i * Q)

IsNaN(a) == a.k = "nan"
IsInf(a) == a.k = "inf"
IsFin(a) == a.k = "fin"
IsZero(a) == a.k = "fin" /\ a.v = 0

Sgn(n) == IF n > 0 THEN 1 ELSE IF n < 0 THEN -1 ELSE 0
\* sign used for a quotient or a product; an (unsigned) zero counts as +0
SgnP(a) == IF a.v < 0 THEN -1 ELSE 1

\* n / d rounded to the nearest integer, symmetric about 0 (d > 0)
RDiv(n, d) == IF n >= 0 THEN (2 * n + d) \div (2 * d)
                        ELSE -((2 * (-n) + d) \div (2 * d))
RDivS(n, d) == IF d > 0 THEN RDiv(n, d) ELSE RDiv(-n, -d)

FNeg(a) == [a EXCEPT !.v = -a.v]

FAbs(a) == [a EXCEPT !.v = IF a.v < 0 THEN -a.v ELSE a.v]

FAdd(a, b) ==
    IF IsNaN(a) \/ IsNaN(b) THEN NaN
    ELSE IF IsInf(a) /\ IsInf(b) THEN (IF a.v = b.v THEN a ELSE NaN)
    ELSE IF IsInf(a) THEN a
    ELSE IF IsInf(b) THEN b
    ELSE Fin(a.v + b.v)

FSub(a, b) == FAdd(a, FNeg(b))

FMul(a, b) ==
    IF IsNaN(a) \/ IsNaN(b) THEN NaN
    ELSE IF IsInf(a) \/ IsInf(b)
         THEN (IF IsZero(a) \/ IsZero(b) THEN NaN ELSE Inf(Sgn(a.v) * Sgn(b.v)))
    ELSE Fin(RDiv(a.v * b.v, Q))

FDiv(a, b) ==
    IF IsNaN(a) \/ IsNaN(b) THEN NaN
    ELSE IF IsInf(a) THEN (IF IsInf(b) THEN NaN ELSE Inf(a.v * SgnP(b)))
    ELSE IF IsInf(b) THEN Fin(0)
    ELSE IF b.v = 0 THEN (IF a.v = 0 THEN NaN ELSE Inf(Sgn(a.v)))
    ELSE Fin(RDivS(a.v * Q, b.v))

\* a < b and a > b of float64: false when either side is NaN
Key(a) == IF IsInf(a) THEN a.v * 1000000000 ELSE a.v
FLt(a, b) == ~IsNaN(a) /\ ~IsNaN(b) /\ Key(a) < Key(b)
FGt(a, b) == FLt(b, a)

RECURSIVE SqrtIter(_, _, _)
SqrtIter(n, lo, hi) ==
    IF lo >= hi THEN lo
    ELSE LET mid == (lo + hi + 1) \div 2
         IN  IF mid * mid <= n THEN SqrtIter(n, mid, hi)
                               ELSE SqrtIter(n, lo, mid - 1)

\* the integer nearest to the square root of n >= 0
ISqrt(n) ==
    LET s == SqrtIter(n, 0, IF n < 46340 THEN n ELSE 46340)
    IN  IF n - s * s > s THEN s + 1 ELSE s

\* math.Sqrt
FSqrt(a) ==
    IF IsNaN(a) THEN NaN
    ELSE IF IsInf(a) THEN (IF a.v > 0 THEN a ELSE NaN)
    ELSE IF a.v < 0 THEN NaN
    ELSE Fin(ISqrt(a.v * Q))

\* math.Pi on the grid
PI == (314 * Q) \div 100
HalfPI == PI \div 2

\* cosine of a grid angle x with |x| <= HalfPI: (pi^2 - 4x^2) / (pi^2 + x^2),
\* exact at 0 and at pi/2, within 0.002 in between
CosCore(x) == RDiv(Q * (4 * HalfPI * HalfPI - 4 * x * x), 4 * HalfPI * HalfPI + x * x)

\* cosine of any grid angle, by reduction to (-pi, pi] and cos(pi - y) = -cos(y)
ICos(x) ==
    LET m == x % (4 * HalfPI)
        r == IF m > 2 * HalfPI THEN m - 4 * HalfPI ELSE m
        a == IF r < 0 THEN -r ELSE r
    IN  IF a <= HalfPI THEN CosCore(a) ELSE -CosCore(2 * HalfPI - a)

\* math.Cos, math.Sin: NaN for NaN and for the infinities
FCos(a) == IF IsFin(a) THEN Fin(ICos(a.v)) ELSE NaN
FSin(a) == IF IsFin(a) THEN Fin(ICos(a.v - HalfPI)) ELSE NaN

\* math.Acos: NaN outside [-1, 1]; the inverse of CosCore on [0, 1] and
\* acos(-c) = pi - acos(c)
IAcos(c) == RDiv(2 * HalfPI * ISqrt(RDiv((Q - c) * Q * Q, 4 * Q + c)), Q)
FAcos(a) ==
    IF ~IsFin(a) THEN NaN
    ELSE IF a.v > Q \/ a.v < -Q THEN NaN
    ELSE IF a.v >= 0 THEN Fin(IAcos(a.v))
    ELSE Fin(2 * HalfPI - IAcos(-a.v))

\* exp(y) for a grid y >= 0, by the degree-4 Taylor polynomial in Horner form
ExpPoly(y) ==
    LET t4 == Q + RDiv(y, 4)
        t3 == Q + RDiv(RDiv(y, 3) * t4, Q)
        t2 == Q + RDiv(RDiv(y, 2) * t3, Q)
    IN  Q + RDiv(y * t2, Q)

\* beyond this argument exp(-y) is below the grid's resolution
ExpCut == 6 * Q

\* math.Exp: NaN for NaN, 0 for -Inf, +Inf for +Inf; exp(-y) = 1/exp(y)
FExp(a) ==
    IF IsNaN(a) THEN NaN
    ELSE IF IsInf(a) THEN (IF a.v > 0 THEN a ELSE Fin(0))
    ELSE IF a.v = 0 THEN Fin(Q)
    ELSE IF a.v < 0
         THEN (IF -a.v >= ExpCut THEN Fin(0) ELSE Fin(RDiv(Q * Q, ExpPoly(-a.v))))
    ELSE IF a.v >= ExpCut THEN Inf(1) ELSE Fin(ExpPoly(a.v))

\* sqr64
sqr64(a) == FMul(a, a)

\* ------------------------------------------------------------------------
\* State
\* ------------------------------------------------------------------------

VARIABLES
    mesh,     \* the engine's mesh: [cellsize, worldsize], each a 3-vector
    heap,     \* the *rand.Rand objects allocated so far: sequence of stream states
    cfg,      \* the Config values (closures) held by the caller, by slot
    built,    \* per slot: how the slot's Config was built (bookkeeping)
    last,     \* the latest call made by the caller and what it returned
    outs,     \* per slot: what its evaluations returned so far (bookkeeping)
    thr,      \* the goroutines evaluating a Config: position and locals of each
    file,     \* the file behind the URL: [exists, data]
    wr,       \* the writer Create returned: [open, buf, err]
    acct      \* bookkeeping of the writer's calls: [base, wrote, failed, next, creates]

\* ------------------------------------------------------------------------
\* math/rand
\* ------------------------------------------------------------------------

\* Size of the generator's state space: a full-period congruential stream
\* stands for the additive lagged Fibonacci generator of math/rand.
RngMod == 64

\* rand.NewSource(int64(seed)): the stream state after seeding
NewSource(seed) == seed % RngMod

\* one step of the stream
Int63(s) == (5 * s + 3) % RngMod

\* the value in [0, 1) that rng.Float64() returns from the stepped state
Float64Of(s) == Fin((s * Q) \div RngMod)

\* rng.Float64(): steps the stream and returns the value
Float64(s) == [f |-> Float64Of(Int63(s)), s |-> Int63(s)]

\* randomDir's arithmetic on its two draws
DirOf(f1, f2) ==
    LET theta == FMul(FMul(FInt(2), f1), Fin(PI))
        z == FMul(FInt(2), FSub(f2, Fin(Q \div 2)))
        b == FSqrt(FSub(FInt(1), FMul(z, z)))
        x == FMul(b, FCos(theta))
        y == FMul(b, FSin(theta))
    IN  <<x, y, z>>

\* randomDir(rng), evaluated without interruption, on stream state s
randomDir(s) ==
    LET d1 == Float64(s)
        d2 == Float64(d1.s)
    IN  [m |-> DirOf(d1.f, d2.f), s |-> d2.s]

\* ------------------------------------------------------------------------
\* Generators: the constructor (what the closure captures) and the closure
\* body (...At) for each
\* ------------------------------------------------------------------------

\* RandomMagSeed(seed): allocates a stream on the heap; the closure holds
\* the pointer
\* Variant: every call of RandomMagSeed hands out the first stream allocated
RandomMagSeed_OneStream(seed, h) ==
    [c |-> [g |-> "RandomMagSeed", rng |-> 1],
     h |-> IF h = <<>> THEN <<NewSource(seed)>> ELSE h]

RandomMagSeed(seed, h) ==
    [c |-> [g |-> "RandomMagSeed", rng |-> Len(h) + 1], h |-> Append(h, NewSource(seed))]

RandomMag(h) == RandomMagSeed(0, h)

\* Variant: the draw depends on the x coordinate
RandomMagSeedAt_CoordSeeded(c, x, y, z, h) ==
    LET r == randomDir((h[c.rng] + (x.v \div Q) + RngMod) % RngMod)
    IN  [m |-> r.m, h |-> [h EXCEPT ![c.rng] = r.s]]

RandomMagSeedAt(c, x, y, z, h) ==
    LET r == randomDir(h[c.rng])
    IN  [m |-> r.m, h |-> [h EXCEPT ![c.rng] = r.s]]

Uniform(mx, my, mz) == [g |-> "Uniform", mx |-> mx, my |-> my, mz |-> mz]

UniformAt(c, x, y, z) == <<c.mx, c.my, c.mz>>

\* Variant: only the z component is tested
noNaN_OnlyZ(v, pol) ==
    IF IsNaN(v[3]) THEN <<Fin(0), Fin(0), FInt(pol)>> ELSE v

noNaN(v, pol) ==
    IF IsNaN(v[1]) \/ IsNaN(v[2]) \/ IsNaN(v[3])
    THEN <<Fin(0), Fin(0), FInt(pol)>>
    ELSE v

Vortex(circ, pol) ==
    [g |-> "Vortex", circ |-> circ, pol |-> pol,
     diam2 |-> FMul(FInt(2), sqr64(mesh.cellsize[1]))]

\* Variant: the cell size is read from the mesh at each evaluation
VortexAt_LiveMesh(c, x, y, z) ==
    LET r2 == FAdd(FMul(x, x), FMul(y, y))
        r == FSqrt(r2)
        mx == FDiv(FMul(FNeg(y), FInt(c.circ)), r)
        my == FDiv(FMul(x, FInt(c.circ)), r)
        diam2 == FMul(FInt(2), sqr64(mesh.cellsize[1]))
        mz == FMul(FMul(Fin((3 * Q) \div 2), FInt(c.pol)), FExp(FDiv(FNeg(r2), diam2)))
    IN  noNaN(<<mx, my, mz>>, c.pol)

VortexAt(c, x, y, z) ==
    LET r2 == FAdd(FMul(x, x), FMul(y, y))
        r == FSqrt(r2)
        mx == FDiv(FMul(FNeg(y), FInt(c.circ)), r)
        my == FDiv(FMul(x, FInt(c.circ)), r)
        mz == FMul(FMul(Fin((3 * Q) \div 2), FInt(c.pol)), FExp(FDiv(FNeg(r2), c.diam2)))
    IN  noNaN(<<mx, my, mz>>, c.pol)

NeelSkyrmion(charge, pol) ==
    LET w == FMul(FInt(8), mesh.cellsize[1])
    IN  [g |-> "NeelSkyrmion", charge |-> charge, pol |-> pol, w2 |-> FMul(w, w)]

NeelSkyrmionAt(c, x, y, z) ==
    LET r2 == FAdd(FMul(x, x), FMul(y, y))
        r == FSqrt(r2)
        mz == FMul(FMul(FInt(2), FInt(c.pol)),
                   FSub(FExp(FDiv(FNeg(r2), c.w2)), Fin(Q \div 2)))
        mx == FMul(FDiv(FMul(x, FInt(c.charge)), r), FSub(FInt(1), FAbs(mz)))
        my == FMul(FDiv(FMul(y, FInt(c.charge)), r), FSub(FInt(1), FAbs(mz)))
    IN  noNaN(<<mx, my, mz>>, c.pol)

BlochSkyrmion(charge, pol) ==
    LET w == FMul(FInt(8), mesh.cellsize[1])
    IN  [g |-> "BlochSkyrmion", charge |-> charge, pol |-> pol, w2 |-> FMul(w, w)]

BlochSkyrmionAt(c, x, y, z) ==
    LET r2 == FAdd(FMul(x, x), FMul(y, y))
        r == FSqrt(r2)
        mz == FMul(FMul(FInt(2), FInt(c.pol)),
                   FSub(FExp(FDiv(FNeg(r2), c.w2)), Fin(Q \div 2)))
        mx == FMul(FDiv(FMul(FNeg(y), FInt(c.charge)), r), FSub(FInt(1), FAbs(mz)))
        my == FMul(FDiv(FMul(x, FInt(c.charge)), r), FSub(FInt(1), FAbs(mz)))
    IN  noNaN(<<mx, my, mz>>, c.pol)

AntiVortex(circ, pol) ==
    [g |-> "AntiVortex", circ |-> circ, pol |-> pol,
     diam2 |-> FMul(FInt(2), sqr64(mesh.cellsize[1]))]

AntiVortexAt(c, x, y, z) ==
    LET r2 == FAdd(FMul(x, x), FMul(y, y))
        r == FSqrt(r2)
        mx == FDiv(FMul(FNeg(x), FInt(c.circ)), r)
        my == FDiv(FMul(y, FInt(c.circ)), r)
        mz == FMul(FMul(Fin((3 * Q) \div 2), FInt(c.pol)), FExp(FDiv(FNeg(r2), c.diam2)))
    IN  noNaN(<<mx, my, mz>>, c.pol)

VortexWall(mleft, mright, circ, pol) ==
    [g |-> "VortexWall", mleft |-> mleft, mright |-> mright,
     h |-> mesh.worldsize[2], v |-> Vortex(circ, pol)]

VortexWallAt(c, x, y, z) ==
    IF FLt(x, FDiv(FNeg(c.h), FInt(2))) THEN <<c.mleft, Fin(0), Fin(0)>>
    ELSE IF FGt(x, FDiv(c.h, FInt(2))) THEN <<c.mright, Fin(0), Fin(0)>>
    ELSE VortexAt(c.v, x, y, z)

TwoDomain(mx1, my1, mz1, mxwall, mywall, mzwall, mx2, my2, mz2) ==
    [g |-> "TwoDomain", m1 |-> <<mx1, my1, mz1>>, mwall |-> <<mxwall, mywall, mzwall>>,
     m2 |-> <<mx2, my2, mz2>>, ww |-> FMul(FInt(2), mesh.cellsize[1])]

TwoDomainAt(c, x, y, z) ==
    LET m == IF FLt(x, Fin(0)) THEN c.m1 ELSE c.m2
        gauss == FExp(FNeg(sqr64(FDiv(x, c.ww))))
        blend(i) == FAdd(FMul(FSub(FInt(1), gauss), m[i]), FMul(gauss, c.mwall[i]))
    IN  <<blend(1), blend(2), blend(3)>>

HelicalMag(Ld, qx, qy) == [g |-> "Helical", Ld |-> Ld, qx |-> qx, qy |-> qy]

HelicalMagAt(c, x, y, z) ==
    LET q_norm == FSqrt(FAdd(FMul(c.qx, c.qx), FMul(c.qy, c.qy)))
        q_x == FDiv(c.qx, q_norm)
        cos_theta == q_x
        sin_theta == FSin(FAcos(cos_theta))
        u == FAdd(FMul(cos_theta, x), FMul(sin_theta, y))
        arg == FDiv(FMul(FMul(FInt(2), Fin(PI)), u), c.Ld)
        m_v == FCos(arg)
    IN  <<FMul(sin_theta, m_v), FMul(cos_theta, m_v), FSin(arg)>>

\* ------------------------------------------------------------------------
\* Combinators
\* ------------------------------------------------------------------------

Transl(c, dx, dy, dz) == [g |-> "Transl", c |-> c, dx |-> dx, dy |-> dy, dz |-> dz]

Scale(c, sx, sy, sz) == [g |-> "Scale", c |-> c, sx |-> sx, sy |-> sy, sz |-> sz]

RotZ(c, theta) == [g |-> "RotZ", c |-> c, cos |-> FCos(theta), sin |-> FSin(theta)]

Add(c, weight, other) == [g |-> "Add", c |-> c, weight |-> weight, other |-> other]

\* data.Vector.MAdd: a + s*b, component-wise
MAdd(a, s, b) ==
    <<FAdd(a[1], FMul(s, b[1])), FAdd(a[2], FMul(s, b[2])), FAdd(a[3], FMul(s, b[3]))>>

\* Calling a Config: the vector it returns and the heap it leaves.
RECURSIVE Call(_, _, _, _, _)

TranslAt(c, x, y, z, h) == Call(c.c, FSub(x, c.dx), FSub(y, c.dy), FSub(z, c.dz), h)

ScaleAt(c, x, y, z, h) == Call(c.c, FDiv(x, c.sx), FDiv(y, c.sy), FDiv(z, c.sz), h)

\* the position at which RotZ samples the Config it wraps
RotZPos(c, x, y) ==
    <<FAdd(FMul(x, c.cos), FMul(y, c.sin)), FAdd(FMul(FNeg(x), c.sin), FMul(y, c.cos))>>

\* Variant: the in-plane components are rotated by -theta
RotZAt_SignSlip(c, x, y, z, h) ==
    LET p == RotZPos(c, x, y)
        r == Call(c.c, p[1], p[2], z, h)
        m == r.m
        mx_ == FAdd(FMul(m[1], c.cos), FMul(m[2], c.sin))
        my_ == FSub(FMul(m[2], c.cos), FMul(m[1], c.sin))
    IN  [m |-> <<mx_, my_, m[3]>>, h |-> r.h]

RotZAt(c, x, y, z, h) ==
    LET p == RotZPos(c, x, y)
        r == Call(c.c, p[1], p[2], z, h)
        m == r.m
        mx_ == FSub(FMul(m[1], c.cos), FMul(m[2], c.sin))
        my_ == FAdd(FMul(m[1], c.sin), FMul(m[2], c.cos))
    IN  [m |-> <<mx_, my_, m[3]>>, h |-> r.h]

AddAt(c, x, y, z, h) ==
    LET a == Call(c.c, x, y, z, h)
        b == Call(c.other, x, y, z, a.h)
    IN  [m |-> MAdd(a.m, c.weight, b.m), h |-> b.h]

Call(c, x, y, z, h) ==
    CASE c.g = "Uniform" -> [m |-> UniformAt(c, x, y, z), h |-> h]
      [] c.g = "RandomMagSeed" -> RandomMagSeedAt(c, x, y, z, h)
      [] c.g = "Vortex" -> [m |-> VortexAt(c, x, y, z), h |-> h]
      [] c.g = "AntiVortex" -> [m |-> AntiVortexAt(c, x, y, z), h |-> h]
      [] c.g = "NeelSkyrmion" -> [m |-> NeelSkyrmionAt(c, x, y, z), h |-> h]
      [] c.g = "BlochSkyrmion" -> [m |-> BlochSkyrmionAt(c, x, y, z), h |-> h]
      [] c.g = "VortexWall" -> [m |-> VortexWallAt(c, x, y, z), h |-> h]
      [] c.g = "TwoDomain" -> [m |-> TwoDomainAt(c, x, y, z), h |-> h]
      [] c.g = "Helical" -> [m |-> HelicalMagAt(c, x, y, z), h |-> h]
      [] c.g = "Transl" -> TranslAt(c, x, y, z, h)
      [] c.g = "Scale" -> ScaleAt(c, x, y, z, h)
      [] c.g = "RotZ" -> RotZAt(c, x, y, z, h)
      [] c.g = "Add" -> AddAt(c, x, y, z, h)

vars == <<mesh, heap, cfg, built, last, outs, thr, file, wr, acct>>

\* the state of the httpfs layer and of the goroutines
fsVars == <<file, wr, acct>>
NoFile == [exists |-> FALSE, data |-> <<>>]
NoWriter == [open |-> FALSE, buf |-> <<>>, err |-> FALSE]
NoAcct == [base |-> <<>>, wrote |-> <<>>, failed |-> FALSE, next |-> 1, creates |-> 0]
FsIdle == file = NoFile /\ wr = NoWriter /\ acct = NoAcct

\* ------------------------------------------------------------------------
\* Evaluation of one Config at a point (SpecEval)
\* ------------------------------------------------------------------------

\* largest |coordinate| of the sampled grid points
MaxCoord == 2
\* largest |circ| / |charge|
MaxCirc == 1

Coords == (-MaxCoord)..MaxCoord
Circs == (-MaxCirc)..MaxCirc
Pols == {1, -1}

\* rotation angles: 0, a quarter turn (sine and cosine exact), half a radian
Thetas == {Fin(0), Fin(HalfPI), Fin(Q \div 2)}

MkMesh(cx, wy) ==
    [cellsize |-> <<FInt(cx), FInt(cx), FInt(cx)>>,
     worldsize |-> <<FInt(8 * cx), FInt(wy), FInt(cx)>>]

\* the mesh of the evaluation runs: unit cells, world 4 cells high
EvalMesh == MkMesh(1, 4)

\* the Configs the generators build under the current mesh, with legal
\* parameters (finite, helix length > 0)
PureGenerated ==
    {Uniform(FInt(1), Fin(0), Fin(0))}
    \cup {Vortex(c, p) : c \in Circs, p \in Pols}
    \cup {AntiVortex(c, p) : c \in Circs, p \in Pols}
    \cup {NeelSkyrmion(c, p) : c \in Circs, p \in Pols}
    \cup {BlochSkyrmion(c, p) : c \in Circs, p \in Pols}
    \cup {VortexWall(FInt(1), FInt(-1), c, p) : c \in {1}, p \in Pols}
    \cup {TwoDomain(FInt(1), Fin(0), Fin(0), Fin(0), FInt(1), Fin(0), FInt(-1), Fin(0), Fin(0))}
    \cup {HelicalMag(FInt(4), FInt(q[1]), FInt(q[2])) : q \in {<<1, 0>>, <<0, 1>>, <<0, 0>>}}

\* the generated Configs that are also wrapped in a combinator
Wrapped ==
    {Uniform(FInt(1), Fin(0), Fin(0)), Vortex(1, 1), VortexWall(FInt(1), FInt(-1), 1, 1),
     HelicalMag(FInt(4), Fin(0), Fin(0))}

\* one combinator applied to a Config
Combined(c) ==
    {Transl(c, FInt(1), Fin(0), Fin(0)), Scale(c, FInt(2), FInt(1), FInt(1)),
     RotZ(c, Fin(HalfPI)), Add(c, Fin(Q \div 5), Uniform(Fin(0), Fin(0), FInt(1)))}

IsPure(c) ==
    c.g # "RandomMagSeed" /\ (c.g \in {"Transl", "Scale", "RotZ", "Add"} => c.c.g # "RandomMagSeed")

NoEval == [op |-> "none", p |-> <<Fin(0), Fin(0), Fin(0)>>, th |-> Fin(0),
           m |-> <<Fin(0), Fin(0), Fin(0)>>, ref |-> <<Fin(0), Fin(0), Fin(0)>>,
           pos |-> <<Fin(0), Fin(0)>>, at |-> <<Fin(0), Fin(0), Fin(0)>>,
           one |-> <<Fin(0), Fin(0), Fin(0)>>, quarter |-> <<Fin(0), Fin(0), Fin(0)>>]

\* The caller has built one Config, by a generator alone or by a generator
\* and one combinator, and has not evaluated it yet.
InitEval ==
    /\ mesh = EvalMesh
    /\ \E rnd \in BOOLEAN, comb \in BOOLEAN :
         LET r == RandomMagSeed(0, <<>>)
         IN  /\ heap = IF rnd THEN r.h ELSE <<>>
             /\ \E b \in (IF rnd THEN {r.c} ELSE IF comb THEN Wrapped ELSE PureGenerated) :
                  \E c \in (IF comb THEN Combined(b) ELSE {b}) : cfg = <<c>>
    /\ built = <<mesh>>
    /\ last = NoEval
    /\ outs = <<>>
    /\ thr = <<>>
    /\ FsIdle

\* m := cfg(x, y, z)
Evaluate(x, y, z) ==
    /\ last.op = "none"
    /\ LET r == Call(cfg[1], FInt(x), FInt(y), FInt(z), heap)
       IN  /\ last' = [NoEval EXCEPT !.op = "eval", !.p = <<FInt(x), FInt(y), FInt(z)>>, !.m = r.m]
           /\ heap' = r.h
    /\ UNCHANGED <<mesh, cfg, built, outs, thr, fsVars>>

\* m := cfg.RotZ(th).RotZ(-th)(x, y, z) for a Config that is a pure function
\* of its coordinate; ref := cfg(x, y, z); pos is where cfg was sampled and
\* at is cfg's value there; one := cfg.RotZ(th)(x, y, z) and quarter :=
\* cfg(y, -x, z), its value at the position a quarter turn clockwise from p
RoundTrip(th, x, y, z) ==
    /\ last.op = "none"
    /\ IsPure(cfg[1])
    /\ LET inner == RotZ(cfg[1], th)
           outer == RotZ(inner, FNeg(th))
           p1 == RotZPos(outer, FInt(x), FInt(y))
           p2 == RotZPos(inner, p1[1], p1[2])
       IN  last' = [op |-> "roundtrip", p |-> <<FInt(x), FInt(y), FInt(z)>>, th |-> th,
                    m |-> Call(outer, FInt(x), FInt(y), FInt(z), heap).m,
                    ref |-> Call(cfg[1], FInt(x), FInt(y), FInt(z), heap).m,
                    pos |-> p2,
                    at |-> Call(cfg[1], p2[1], p2[2], FInt(z), heap).m,
                    one |-> Call(inner, FInt(x), FInt(y), FInt(z), heap).m,
                    quarter |-> Call(cfg[1], FInt(y), FInt(-x), FInt(z), heap).m]
    /\ UNCHANGED <<mesh, heap, cfg, built, outs, thr, fsVars>>

\* m := Uniform(1, 0, 0).Add(0, cfg)(x, y, z)
ZeroAdd(x, y, z) ==
    /\ last.op = "none"
    /\ LET r == Call(Add(Uniform(FInt(1), Fin(0), Fin(0)), Fin(0), cfg[1]),
                     FInt(x), FInt(y), FInt(z), heap)
       IN  /\ last' = [NoEval EXCEPT !.op = "zeroadd", !.p = <<FInt(x), FInt(y), FInt(z)>>, !.m = r.m]
           /\ heap' = r.h
    /\ UNCHANGED <<mesh, cfg, built, outs, thr, fsVars>>

NextEval ==
    \E x \in Coords, y \in Coords, z \in 0..1 :
        \/ Evaluate(x, y, z)
        \/ \E th \in Thetas : RoundTrip(th, x, y, z)
        \/ ZeroAdd(x, y, z)

SpecEval == InitEval /\ [][NextEval]_vars

\* ------------------------------------------------------------------------
\* Claims checked under SpecEval
\* ------------------------------------------------------------------------

Origin2(p) == p[1] = Fin(0) /\ p[2] = Fin(0)
HasNaN(v) == IsNaN(v[1]) \/ IsNaN(v[2]) \/ IsNaN(v[3])
CoreGenerators == {"Vortex", "AntiVortex", "NeelSkyrmion", "BlochSkyrmion"}
FloatSamples == {NaN, Fin(0), FInt(1), Fin(-(Q \div 2)), Inf(1), Inf(-1)}

\* C1: Vortex, AntiVortex, NeelSkyrmion and BlochSkyrmion return exactly
\* (0, 0, pol) at (0, 0, z) for every circ/charge, pol in {+1, -1} and z; and
\* noNaN replaces a vector by (0, 0, pol) when any component is NaN and
\* returns it unchanged otherwise.
C1_OriginFallback ==
    /\ (last.op = "eval" /\ cfg[1].g \in CoreGenerators /\ Origin2(last.p))
          => last.m = <<Fin(0), Fin(0), FInt(cfg[1].pol)>>
    /\ \A a \in FloatSamples, b \in FloatSamples, c \in FloatSamples, pol \in Pols :
          noNaN(<<a, b, c>>, pol) =
             IF IsNaN(a) \/ IsNaN(b) \/ IsNaN(c) THEN <<Fin(0), Fin(0), FInt(pol)>>
                                                ELSE <<a, b, c>>

\* a Bloch skyrmion of polarization -1 was evaluated at (0, 0, 1)
C1_Witness ==
    /\ last.op = "eval" /\ cfg[1].g = "BlochSkyrmion" /\ cfg[1].pol = -1
    /\ last.p = <<Fin(0), Fin(0), FInt(1)>>
    /\ last.m = <<Fin(0), Fin(0), FInt(-1)>>

\* C3: no evaluation at a finite coordinate returns a vector with a NaN
\* component, whatever zero denominator the coordinate or the parameters
\* produce; in particular not HelicalMag(Ld, 0, 0).
C3_NoNaNReturned == last.op = "eval" => ~HasNaN(last.m)

\* C9: Uniform(1,0,0).Add(0, g) returns exactly (1, 0, 0) at every
\* coordinate, for every g built by the generators and combinators.
C9_ZeroWeightIdentity == last.op = "zeroadd" => last.m = <<FInt(1), Fin(0), Fin(0)>>

\* tolerance of a comparison of vectors, in grid units
Tol == 3
\* rounding of a twice rotated position, in grid units
PosTol == 2

Dist(a, b) == IF a.v >= b.v THEN a.v - b.v ELSE b.v - a.v
Near(a, b, t) == IF IsFin(a) /\ IsFin(b) THEN Dist(a, b) <= t ELSE a = b
VClose(a, b, t) == \A i \in 1..3 : Near(a[i], b[i], t)

\* the rotation's sine and cosine are exact
ExactRot(th) == FCos(th).v \in {0, Q, -Q} /\ FSin(th).v \in {0, Q, -Q}

\* C8 as stated: f.RotZ(th).RotZ(-th)(p) equals f(p), exactly when th = 0 or
\* sine and cosine are exact, within tolerance otherwise, for every pure f,
\* every th and every p.
C8_RoundTripEverywhere ==
    last.op = "roundtrip" =>
        /\ VClose(last.m, last.ref, Tol)
        /\ ExactRot(last.th) => last.m = last.ref

\* C8 as amended: f.RotZ(th).RotZ(-th)(p) is, within tolerance, f's value at
\* the twice rotated sampling position, which is within rounding of p and
\* is p itself when th = 0 or sine and cosine are exact, where the result is
\* exactly f(p); z and the z component pass through unchanged.  A single
\* RotZ by a quarter turn samples f at p turned by minus a quarter turn and
\* turns the in-plane components of the value by plus a quarter turn.
C8_RoundTrip ==
    last.op = "roundtrip" =>
        /\ VClose(last.m, last.at, Tol)
        /\ Near(last.pos[1], last.p[1], PosTol) /\ Near(last.pos[2], last.p[2], PosTol)
        /\ last.m[3] = last.at[3]
        /\ ExactRot(last.th) => (last.pos = <<last.p[1], last.p[2]>> /\ last.m = last.ref)
        /\ last.pos = <<last.p[1], last.p[2]>> => VClose(last.m, last.ref, Tol)
        /\ (FCos(last.th) = Fin(0) /\ FSin(last.th) = FInt(1)) =>
              last.one = <<FNeg(last.quarter[2]), last.quarter[1], last.quarter[3]>>

\* a vortex wall was rotated by half a radian and back, and sampled at
\* (2, 0, 0)
C8_Witness ==
    /\ last.op = "roundtrip" /\ cfg[1].g = "VortexWall" /\ ~ExactRot(last.th)
    /\ last.p = <<FInt(2), Fin(0), Fin(0)>>

\* ------------------------------------------------------------------------
\* Two RandomMagSeed Configs evaluated one call at a time (SpecSeed)
\* ------------------------------------------------------------------------

\* largest seed
MaxSeed == 2
\* evaluations made of each Config
MaxDraws == 3

Seeds == 0..MaxSeed

\* the coordinates passed to the evaluations
SeedPoints == {<<0, 0, 0>>, <<1, -2, 1>>}

\* Two Configs were built independently, each by RandomMagSeed.
InitSeed ==
    /\ mesh = EvalMesh
    /\ \E s1 \in Seeds, s2 \in Seeds :
         LET a == RandomMagSeed(s1, <<>>)
             b == RandomMagSeed(s2, a.h)
         IN  /\ heap = b.h
             /\ cfg = <<a.c, b.c>>
             /\ built = <<s1, s2>>
    /\ last = NoEval
    /\ outs = <<<<>>, <<>>>>
    /\ thr = <<>>
    /\ FsIdle

\* m := cfg[i](x, y, z)
EvaluateSeeded(i, p) ==
    /\ Len(outs[i]) < MaxDraws
    /\ LET r == Call(cfg[i], FInt(p[1]), FInt(p[2]), FInt(p[3]), heap)
       IN  /\ heap' = r.h
           /\ outs' = [outs EXCEPT ![i] = Append(@, [p |-> p, m |-> r.m])]
    /\ UNCHANGED <<mesh, cfg, built, last, thr, fsVars>>

NextSeed == \E i \in 1..2, p \in SeedPoints : EvaluateSeeded(i, p)

SpecSeed == InitSeed /\ [][NextSeed]_vars

\* the stream state n draws after seeding
RECURSIVE StreamAt(_, _)
StreamAt(seed, n) == IF n = 0 THEN NewSource(seed) ELSE Int63(StreamAt(seed, n - 1))

\* the k-th vector of the sequential sequence of a seed: the direction
\* made of draws 2k-1 and 2k of the stream
KthDir(seed, k) ==
    DirOf(Float64Of(StreamAt(seed, 2 * k - 1)), Float64Of(StreamAt(seed, 2 * k)))

\* C2: the k-th vector a RandomMagSeed(seed) Config returns is a function of
\* (seed, k) only, whatever coordinates were passed; two Configs built
\* independently with the same seed return the same sequence; and each
\* evaluation advances the Config's stream by one direction draw.
C2_SeedAndOrderOnly ==
    /\ \A i \in 1..2 : \A k \in 1..Len(outs[i]) : outs[i][k].m = KthDir(built[i], k)
    /\ \A i \in 1..2 : heap[cfg[i].rng] = StreamAt(built[i], 2 * Len(outs[i]))
    /\ built[1] = built[2] =>
          \A k \in 1..Len(outs[1]) : k <= Len(outs[2]) => outs[1][k].m = outs[2][k].m

\* two Configs of the same seed were each evaluated MaxDraws times, at
\* different coordinates
C2_Witness ==
    /\ built[1] = built[2]
    /\ Len(outs[1]) = MaxDraws /\ Len(outs[2]) = MaxDraws
    /\ \A k \in 1..MaxDraws : outs[1][k].p # outs[2][k].p
    /\ outs[1][1].m # outs[1][2].m

\* ------------------------------------------------------------------------
\* Two goroutines evaluating one RandomMagSeed Config (SpecRace)
\*
\* randomDir takes no lock: rng.Float64() reads the stream state and writes
\* the stepped state back, and another goroutine may run between the two.
\* ------------------------------------------------------------------------

Threads == {1, 2}
\* evaluations made by each goroutine
MaxEvalsPerThread == 2

Idle == [pc |-> "idle", loc |-> 0, theta |-> Fin(0), d |-> 0, n |-> 0]

\* One Config was built by RandomMagSeed; no goroutine has called it yet.
InitRace ==
    /\ mesh = EvalMesh
    /\ \E s \in Seeds :
         LET a == RandomMagSeed(s, <<>>)
         IN  heap = a.h /\ cfg = <<a.c>> /\ built = <<s>>
    /\ last = [op |-> "race", overlap |-> FALSE]
    /\ outs = <<<<>>>>
    /\ thr = [t \in Threads |-> Idle]
    /\ FsIdle

\* goroutine t calls cfg[1](x, y, z), which calls randomDir(rng)
BeginCall(t) ==
    /\ thr[t].pc = "idle"
    /\ thr[t].n < MaxEvalsPerThread
    /\ thr' = [thr EXCEPT ![t].pc = "theta"]
    /\ last' = [last EXCEPT !.overlap = @ \/ \E u \in Threads \ {t} : thr[u].pc # "idle"]
    /\ UNCHANGED <<mesh, heap, cfg, built, outs, fsVars>>

\* rng.Float64(), first half: read the stream state
LoadState(t) ==
    /\ thr[t].pc \in {"theta", "z"}
    /\ thr' = [thr EXCEPT ![t].loc = heap[cfg[1].rng],
                          ![t].pc = IF thr[t].pc = "theta" THEN "theta_st" ELSE "z_st"]
    /\ UNCHANGED <<mesh, heap, cfg, built, last, outs, fsVars>>

\* the stream state rng.Float64() writes back, having read state s
\* Variant: a draw advances the stream by two steps
StepFrom_Skip(s) == Int63(Int63(s))

StepFrom(s) == Int63(s)

\* theta := 2 * rng.Float64() * math.Pi, second half: write the stepped
\* state, keep the value drawn
StoreTheta(t) ==
    /\ thr[t].pc = "theta_st"
    /\ heap' = [heap EXCEPT ![cfg[1].rng] = StepFrom(thr[t].loc)]
    /\ thr' = [thr EXCEPT ![t].pc = "z", ![t].d = StepFrom(thr[t].loc),
                          ![t].theta = Float64Of(StepFrom(thr[t].loc))]
    /\ UNCHANGED <<mesh, cfg, built, last, outs, fsVars>>

\* z := 2 * (rng.Float64() - 0.5), second half, and the rest of randomDir:
\* the vector is returned to the caller
StoreZ(t) ==
    /\ thr[t].pc = "z_st"
    /\ heap' = [heap EXCEPT ![cfg[1].rng] = StepFrom(thr[t].loc)]
    /\ outs' = [outs EXCEPT ![1] =
                  Append(@, [m |-> DirOf(thr[t].theta, Float64Of(StepFrom(thr[t].loc))),
                             d |-> <<thr[t].d, StepFrom(thr[t].loc)>>])]
    /\ thr' = [thr EXCEPT ![t].pc = "idle", ![t].n = @ + 1]
    /\ UNCHANGED <<mesh, cfg, built, last, fsVars>>

NextRace ==
    \E t \in Threads : BeginCall(t) \/ LoadState(t) \/ StoreTheta(t) \/ StoreZ(t)

SpecRace == InitRace /\ [][NextRace]_vars

\* the entry pairs two draws that are adjacent in the stream
Adjacent(e) == e.d[2] = Int63(e.d[1])

\* the vectors made of two adjacent draws of the stream: every vector of
\* the sequential sequence of every seed is one of them
SequentialDirs ==
    {DirOf(Float64Of(Int63(s)), Float64Of(Int63(Int63(s)))) : s \in 0..(RngMod - 1)}

\* C10: the evaluations of one RandomMagSeed Config draw theta and then z
\* from the one shared stream without a lock.  When the caller serializes
\* the evaluations, the vectors returned are the first N of the sequential
\* sequence of the seed; a vector that pairs draws not adjacent in the stream
\* is returned only when two evaluations ran at once (such a run is reachable:
\* C10_Witness).
C10_SerializedOrRacy ==
    /\ ~last.overlap =>
          \A k \in 1..Len(outs[1]) : outs[1][k].m = KthDir(built[1], k)
    /\ (~last.overlap /\ \A t \in Threads : thr[t].pc = "idle") =>
          heap[cfg[1].rng] = StreamAt(built[1], 2 * Len(outs[1]))
    /\ \A k \in 1..Len(outs[1]) : ~Adjacent(outs[1][k]) => last.overlap

\* two goroutines evaluated the Config at once and one was returned a vector
\* that pairs draws not adjacent in the stream and is no vector of the
\* sequential sequence
C10_Witness ==
    \E k \in 1..Len(outs[1]) :
        /\ ~Adjacent(outs[1][k])
        /\ outs[1][k].m \notin SequentialDirs
        /\ last.overlap

\* ------------------------------------------------------------------------
\* Building a Config, changing the mesh, evaluating (SpecMesh)
\* ------------------------------------------------------------------------

\* largest cell size of the meshes tried
MaxCell == 2

Meshes == {MkMesh(c, w) : c \in 1..MaxCell, w \in {2, 4}}

MeshPoints == {<<0, 0, 0>>, <<1, 0, 0>>, <<2, 1, 0>>, <<-3, 0, 1>>}

\* the Configs the mesh-reading generators build under the current mesh
MeshGenerated ==
    {Vortex(1, 1), AntiVortex(1, -1), NeelSkyrmion(1, 1), BlochSkyrmion(-1, 1),
     TwoDomain(FInt(1), Fin(0), Fin(0), Fin(0), FInt(1), Fin(0), FInt(-1), Fin(0), Fin(0)),
     VortexWall(FInt(1), FInt(-1), 1, 1)}

FPoint(p) == <<FInt(p[1]), FInt(p[2]), FInt(p[3])>>

\* c(p) for a Config that draws from no stream
At(c, p) == Call(c, p[1], p[2], p[3], <<>>).m

\* The engine has a mesh; the caller holds no Config yet.
InitMesh ==
    /\ mesh \in Meshes
    /\ heap = <<>>
    /\ cfg = <<[g |-> "none"]>>
    /\ built = <<[mesh |-> mesh, ref |-> [p \in {FPoint(q) : q \in MeshPoints} |-> <<NaN, NaN, NaN>>]]>>
    /\ last = NoEval
    /\ outs = <<>>
    /\ thr = <<>>
    /\ FsIdle

\* cfg[1] = <generator>(...): the generator runs under the current mesh.
\* Bookkeeping: the mesh it ran under and the vectors the new Config
\* returns now, at construction.
Build ==
    \E c \in MeshGenerated :
        /\ cfg' = <<c>>
        /\ built' = <<[mesh |-> mesh, ref |-> [p \in {FPoint(q) : q \in MeshPoints} |-> At(c, p)]]>>
        /\ last' = [NoEval EXCEPT !.op = "build"]
        /\ UNCHANGED <<mesh, heap, outs, thr, fsVars>>

\* the engine's mesh is replaced (SetGridSize, SetCellSize, ...)
SetMesh ==
    \E m \in Meshes \ {mesh} :
        /\ mesh' = m
        /\ last' = [NoEval EXCEPT !.op = "setmesh"]
        /\ UNCHANGED <<heap, cfg, built, outs, thr, fsVars>>

\* m := cfg[1](p)
EvaluateBuilt ==
    /\ cfg[1].g # "none"
    /\ \E p \in MeshPoints :
         last' = [NoEval EXCEPT !.op = "eval", !.p = FPoint(p), !.m = At(cfg[1], FPoint(p))]
    /\ UNCHANGED <<mesh, heap, cfg, built, outs, thr, fsVars>>

NextMesh == Build \/ SetMesh \/ EvaluateBuilt

SpecMesh == InitMesh /\ [][NextMesh]_vars

\* C5: the vector a Config built by Vortex, AntiVortex, NeelSkyrmion,
\* BlochSkyrmion, TwoDomain or VortexWall returns at a coordinate is the one
\* fixed by the cell size and world size in effect when it was built: every
\* evaluation, after any changes of the mesh, returns what the Config returned
\* at that coordinate at construction.
C5_MeshReadAtConstruction ==
    last.op = "eval" => last.m = built[1].ref[last.p]

\* a vortex wall was evaluated after both the cell size and the world size
\* changed, at a coordinate where a vortex wall built under the new mesh
\* returns another vector
C5_Witness ==
    /\ last.op = "eval" /\ cfg[1].g = "VortexWall"
    /\ mesh.cellsize # built[1].mesh.cellsize
    /\ mesh.worldsize[2] # built[1].mesh.worldsize[2]
    /\ last.m # At(VortexWall(FInt(1), FInt(-1), 1, 1), last.p)

\* ------------------------------------------------------------------------
\* A base Config, two Configs derived from it, and an unrelated Config
\* (SpecShare)
\* ------------------------------------------------------------------------

\* evaluations made in a run
MaxEvals == 3

SharePoints == {<<0, 0, 0>>, <<1, 2, 0>>}

\* cfg[1] is built by a generator, cfg[2] and cfg[3] are derived from it by
\* combinators, cfg[4] is built by a RandomMagSeed call of its own.
\* built[i] is the slot of the generator call that cfg[i] comes from.
InitShare ==
    /\ mesh = EvalMesh
    /\ \E kind \in {"RandomMagSeed", "RandomMag", "Vortex", "Uniform"}, s \in Seeds :
         LET b == CASE kind = "RandomMagSeed" -> RandomMagSeed(s, <<>>)
                    [] kind = "RandomMag" -> RandomMag(<<>>)
                    [] kind = "Vortex" -> [c |-> Vortex(1, 1), h |-> <<>>]
                    [] kind = "Uniform" -> [c |-> Uniform(FInt(1), Fin(0), Fin(0)), h |-> <<>>]
             o == RandomMagSeed(s, b.h)
         IN  /\ kind # "RandomMagSeed" => s = 0
             /\ heap = o.h
             /\ \E d1 \in {Transl(b.c, FInt(1), Fin(0), Fin(0)), RotZ(b.c, Fin(HalfPI))},
                   d2 \in {Scale(b.c, FInt(2), FInt(1), FInt(1)),
                           Add(Uniform(FInt(1), Fin(0), Fin(0)), Fin(Q \div 5), b.c)} :
                  cfg = <<b.c, d1, d2, o.c>>
    /\ built = <<1, 1, 1, 4>>
    /\ last = [op |-> "none", slot |-> 0, n |-> 0]
    /\ outs = <<>>
    /\ thr = <<>>
    /\ FsIdle

\* cfg[i](p)
EvaluateSlot(i, p) ==
    /\ last.n < MaxEvals
    /\ heap' = Call(cfg[i], FInt(p[1]), FInt(p[2]), FInt(p[3]), heap).h
    /\ last' = [op |-> "eval", slot |-> i, n |-> last.n + 1]
    /\ UNCHANGED <<mesh, cfg, built, outs, thr, fsVars>>

NextShare == \E i \in 1..4, p \in SharePoints : EvaluateSlot(i, p)

SpecShare == InitShare /\ [][NextShare]_vars

\* the step changes the vector cfg[t] returns next at some coordinate
Disturbs(t) ==
    \E q \in SharePoints :
        Call(cfg[t], FInt(q[1]), FInt(q[2]), FInt(q[3]), heap).m
            # Call(cfg[t], FInt(q[1]), FInt(q[2]), FInt(q[3]), heap').m

\* C4 as stated: evaluating the base Config or a Config derived from it
\* never changes the vector that another of them returns on a later
\* evaluation, whatever generator built the base (RandomMag and RandomMagSeed
\* included).
C4_NoSharedState ==
    [][\A t \in 1..3 : (last'.slot \in 1..3 /\ t # last'.slot) => ~Disturbs(t)]_vars

\* C4 as amended: evaluating one Config changes the vector another returns
\* later only when both come from the same RandomMag/RandomMagSeed call, whose
\* stream they share; Configs derived from a base built by any other
\* generator, and Configs that come from different generator calls, never
\* affect one another.
C4_SharedStreamOnly ==
    [][\A t \in 1..4 :
          (t # last'.slot /\ Disturbs(t)) =>
              /\ built[t] = built[last'.slot]
              /\ cfg[built[t]].g = "RandomMagSeed"]_vars

\* a field derived from a RandomMagSeed field by RotZ was evaluated last,
\* after MaxEvals evaluations: the stream it shares with its base has
\* advanced, the stream of the independently built field has not
C4_Witness ==
    /\ cfg[1].g = "RandomMagSeed" /\ cfg[2].g = "RotZ"
    /\ last.op = "eval" /\ last.slot = 2 /\ last.n = MaxEvals
    /\ \E s \in Seeds : heap[cfg[4].rng] = NewSource(s) /\ heap[cfg[1].rng] # NewSource(s)

\* ------------------------------------------------------------------------
\* httpfs: Create, and the writer it returns (SpecFS)
\*
\* One URL.  A byte is a number: 0 for a byte the file held before, k for
\* the k-th byte handed to the current writer.
\* ------------------------------------------------------------------------

\* bytes the buffer holds
MaxBuf == 2
\* bufio buffer size (16 MiB in the source, MaxBuf bytes here)
BUFSIZE == MaxBuf
\* longest slice passed to Write
MaxWrite == 3
\* bytes handed to one writer
MaxBytes == 5
\* calls of Create in a run
MaxCreates == 2

\* Remove(URL): deletes the file, or fails and leaves it as it is
Remove(f, ok) == IF ok THEN NoFile ELSE f

\* how a call of Append ends: without error, or with an error after k of the
\* bytes reached the file
AppendOutcomes == {[ok |-> TRUE, k |-> 0], [ok |-> FALSE, k |-> 0], [ok |-> FALSE, k |-> 1]}

Min(a, b) == IF a <= b THEN a ELSE b

\* Append(URL, p): creates the file when missing and appends p
AppendTo(f, p, o) ==
    IF o.ok THEN [exists |-> TRUE, data |-> f.data \o p]
    ELSE IF Min(o.k, Len(p)) = 0 THEN f
    ELSE [exists |-> TRUE, data |-> f.data \o SubSeq(p, 1, Min(o.k, Len(p)))]

\* Touch(URL)
Touch(f, o) == AppendTo(f, <<>>, o)

\* appendWriter.Write(p)
AppendWriterWrite(f, p, o) ==
    [f |-> AppendTo(f, p, o), n |-> IF o.ok THEN Len(p) ELSE 0, err |-> ~o.ok]

\* bufio.Writer.Flush over the appendWriter
BufioFlush(w, f, o) ==
    IF w.err THEN [w |-> w, f |-> f, err |-> TRUE]
    ELSE IF w.buf = <<>> THEN [w |-> w, f |-> f, err |-> FALSE]
    ELSE LET r == AppendWriterWrite(f, w.buf, o)
         IN  IF r.err
             THEN [w |-> [w EXCEPT !.buf = SubSeq(w.buf, r.n + 1, Len(w.buf)), !.err = TRUE],
                   f |-> r.f, err |-> TRUE]
             ELSE [w |-> [w EXCEPT !.buf = <<>>], f |-> r.f, err |-> FALSE]

\* bufio.Writer.Write over the appendWriter: the loop, then the final copy;
\* os are the outcomes of the calls of Append the loop makes, in order
RECURSIVE BufioWrite(_, _, _, _)
BufioWrite(w, f, p, os) ==
    IF Len(p) > BUFSIZE - Len(w.buf) /\ ~w.err
    THEN IF w.buf = <<>>
         THEN LET r == AppendWriterWrite(f, p, Head(os))
              IN  BufioWrite([w EXCEPT !.err = r.err], r.f, SubSeq(p, r.n + 1, Len(p)), Tail(os))
         ELSE LET n == BUFSIZE - Len(w.buf)
                  r == BufioFlush([w EXCEPT !.buf = w.buf \o SubSeq(p, 1, n)], f, Head(os))
              IN  BufioWrite(r.w, r.f, SubSeq(p, n + 1, Len(p)), Tail(os))
    ELSE IF w.err THEN [w |-> w, f |-> f, err |-> TRUE]
    ELSE [w |-> [w EXCEPT !.buf = w.buf \o p], f |-> f, err |-> FALSE]

\* bufWriter.Write, bufWriter.Flush, bufWriter.Close
BufWriterWrite(w, f, p, os) == BufioWrite(w, f, p, os)
BufWriterFlush(w, f, o) == BufioFlush(w, f, o)
\* Variant: Close returns nil without flushing
BufWriterClose_NoFlush(w, f, o) == [w |-> w, f |-> f, err |-> FALSE]

BufWriterClose(w, f, o) == BufioFlush(w, f, o)

Files == {NoFile, [exists |-> TRUE, data |-> <<>>], [exists |-> TRUE, data |-> <<0>>]}

\* The file is missing, empty or holds a byte; no writer has been created.
InitFS ==
    /\ mesh = EvalMesh /\ heap = <<>> /\ cfg = <<>> /\ built = <<>> /\ outs = <<>> /\ thr = <<>>
    /\ last = [op |-> "none", err |-> FALSE]
    /\ file \in Files
    /\ wr = NoWriter
    /\ acct = NoAcct

\* w, err := Create(URL)
Create ==
    /\ acct.creates < MaxCreates
    /\ \E rmOk \in BOOLEAN, o \in AppendOutcomes :
         LET f1 == Remove(file, rmOk)
             f2 == Touch(f1, o)
         IN  /\ file' = f2
             /\ IF ~o.ok
                THEN /\ wr' = NoWriter
                     /\ last' = [op |-> "create", err |-> TRUE]
                     /\ acct' = [NoAcct EXCEPT !.creates = acct.creates + 1]
                ELSE /\ wr' = [open |-> TRUE, buf |-> <<>>, err |-> FALSE]
                     /\ last' = [op |-> "create", err |-> FALSE]
                     /\ acct' = [NoAcct EXCEPT !.creates = acct.creates + 1, !.base = f2.data]
    /\ UNCHANGED <<mesh, heap, cfg, built, outs, thr>>

\* n, err := w.Write(p), p being the next len bytes
Write ==
    /\ wr.open
    /\ \E len \in 1..MaxWrite, o1 \in AppendOutcomes, o2 \in AppendOutcomes :
         /\ acct.next + len - 1 <= MaxBytes
         /\ LET p == [i \in 1..len |-> acct.next + i - 1]
                r == BufWriterWrite(wr, file, p, <<o1, o2>>)
            IN  /\ wr' = r.w
                /\ file' = r.f
                /\ last' = [op |-> "write", err |-> r.err]
                /\ acct' = [acct EXCEPT !.next = @ + len,
                                        !.wrote = IF r.err THEN @ ELSE @ \o p,
                                        !.failed = @ \/ r.err]
    /\ UNCHANGED <<mesh, heap, cfg, built, outs, thr>>

\* err := w.Flush()
Flush ==
    /\ wr.open
    /\ \E o \in AppendOutcomes :
         LET r == BufWriterFlush(wr, file, o)
         IN  wr' = r.w /\ file' = r.f /\ last' = [op |-> "flush", err |-> r.err]
    /\ UNCHANGED <<mesh, heap, cfg, built, outs, thr, acct>>

\* err := w.Close()
Close ==
    /\ wr.open
    /\ \E o \in AppendOutcomes :
         LET r == BufWriterClose(wr, file, o)
         IN  wr' = r.w /\ file' = r.f /\ last' = [op |-> "close", err |-> r.err]
    /\ UNCHANGED <<mesh, heap, cfg, built, outs, thr, acct>>

NextFS == Create \/ Write \/ Flush \/ Close

SpecFS == InitFS /\ [][NextFS]_vars

\* C6: when Create returns a writer and a nil error the file is empty,
\* whatever it held before and however the internal Remove ended; when Touch
\* fails Create returns a nil writer and the error.
C6_CreateTruncates ==
    last.op = "create" =>
        /\ ~last.err => (wr.open /\ file.exists /\ file.data = <<>>)
        /\ last.err => ~wr.open

\* what the file holds after the content it had when Create returned
Appended == SubSeq(file.data, Len(acct.base) + 1, Len(file.data))

\* C7: with one writer on the URL, after Writes that all reported success
\* and a Close or Flush that returned nil, the content appended to the file
\* is the concatenation of the written slices in call order; and before that,
\* the bytes appended followed by the bytes still in the buffer are that
\* concatenation, so no byte is appended out of order.
C7_AppendedInOrder ==
    wr.open =>
        /\ (last.op \in {"flush", "close"} /\ ~last.err /\ ~acct.failed)
              => (Appended = acct.wrote /\ file.data = acct.base \o acct.wrote)
        /\ ~wr.err => (~acct.failed /\ Appended \o wr.buf = acct.wrote)

\* MaxBytes bytes were written in slices that all succeeded, some through the
\* buffer and some past it, and Close returned nil
C7_Witness ==
    /\ last.op = "close" /\ ~last.err /\ ~acct.failed
    /\ Len(acct.wrote) = MaxBytes /\ MaxBytes > BUFSIZE
    /\ file.data = acct.base \o acct.wrote

=============================================================================
